---- MODULE Spec2Model ----
(***************************************************************************)
(* A model of Interlock/interlock_tree_parser.py: the line parser          *)
(* (parse_tree_line), the classifier (is_file), the path reconstructor     *)
(* (update_path) and the streaming loop of process_tree_file with its      *)
(* KeyboardInterrupt handling.                                             *)
(*                                                                         *)
(* A string is a sequence of characters; a character is a one-token        *)
(* string.  The box-drawing glyphs and the non-ASCII/whitespace characters *)
(* are written as ASCII tokens:                                            *)
(*   "VBAR" U+2502   "HBAR" U+2500   "ELBOW" U+2514   "TEE" U+251C         *)
(*   "TDOWN" U+252C  "TUP" U+2534    "CORNER_BR" U+2518                    *)
(*   "CORNER_TL" U+250C  "CORNER_TR" U+2510  "CROSS" U+253C                *)
(*   "NBSP" U+00A0   "TAB" U+0009 (any whitespace other than ' ', U+00A0)  *)
(***************************************************************************)
EXTENDS Integers, Sequences, FiniteSets, TLC

VARIABLES
    f,                      \* the lines read from the input file so far
    files_only,             \* the files_only argument of process_tree_file
    pc,                     \* the position of the program
    raw_line,               \* the loop variable raw_line
    item,                   \* the local item (None before the first parse)
    current_path,           \* the path stack
    files_count,            \* files found
    total_lines_processed,  \* lines counted
    extensions,             \* the extension tally (a defaultdict(int))
    output,                 \* the records written to the sink, in order
    interrupted,            \* a KeyboardInterrupt was raised in the line loop
    arg,                    \* the argument of the function called on its own
    ret                     \* the value that call returned

vars == <<f, files_only, pc, raw_line, item, current_path, files_count,
          total_lines_processed, extensions, output, interrupted, arg, ret>>

(***************************************************************************)
(* Bounds of the model.                                                    *)
(***************************************************************************)
MaxLines == 3
MaxLineLen == 5
MaxNameLen == 5
MaxLevel == 3

(***************************************************************************)
(* Character classes.                                                      *)
(***************************************************************************)
\* The list of line 19: characters the content-start scan steps over.
ScanDecoration ==
    {" ", "NBSP", "VBAR", "HBAR", "ELBOW", "TEE",
     "TDOWN", "TUP", "CORNER_BR", "CORNER_TL", "CORNER_TR", "CROSS"}

\* What \s matches and what str.strip() removes.
WhiteSpace == {" ", "NBSP", "TAB"}

\* The character class of TREE_PREFIX_PATTERN (line 27): [│─└├\s\xa0].
TREE_PREFIX_CLASS == {"VBAR", "HBAR", "ELBOW", "TEE", "NBSP"} \cup WhiteSpace

\* The recognised extensions, each with its leading dot (is_file looks up
\* '.' + extension).
FILE_EXTENSIONS == {<<".", "c">>, <<".", "h">>, <<".", "p", "y">>}

\* The value a Python function returns for None.
None == [absent |-> TRUE]

Range(s) == {s[i] : i \in 1..Len(s)}

SeqsUpTo(S, n) == UNION {[1..k -> S] : k \in 0..n}

(***************************************************************************)
(* String helpers.                                                         *)
(***************************************************************************)
RECURSIVE lstrip(_)
lstrip(s) ==
    IF s = <<>> \/ Head(s) \notin WhiteSpace THEN s ELSE lstrip(Tail(s))

RECURSIVE rstrip(_)
rstrip(s) ==
    IF s = <<>> \/ s[Len(s)] \notin WhiteSpace THEN s
    ELSE rstrip(SubSeq(s, 1, Len(s) - 1))

\* str.strip()
strip(s) == rstrip(lstrip(s))

\* re.sub(r'\s+', ' ', s): every maximal run of whitespace becomes one space.
RECURSIVE sub_whitespace(_)
sub_whitespace(s) ==
    IF s = <<>> THEN <<>>
    ELSE IF Head(s) \in WhiteSpace
         THEN <<" ">> \o sub_whitespace(lstrip(Tail(s)))
         ELSE <<Head(s)>> \o sub_whitespace(Tail(s))

\* str.lower() on one character.
lower_char(c) ==
    CASE c = "A" -> "a"
      [] c = "C" -> "c"
      [] c = "H" -> "h"
      [] OTHER -> c

\* str.lower()
lower(s) == [i \in 1..Len(s) |-> lower_char(s[i])]

\* s.split('.')[-1]: what follows the last dot (all of s when it has none).
RECURSIVE split_last(_)
split_last(s) ==
    IF s = <<>> THEN <<>>
    ELSE IF "." \in Range(Tail(s)) THEN split_last(Tail(s))
         ELSE IF Head(s) = "." THEN Tail(s) ELSE s

\* "/".join(path)
RECURSIVE join(_)
join(path) ==
    IF path = <<>> THEN <<>>
    ELSE IF Len(path) = 1 THEN path[1]
         ELSE path[1] \o <<"/">> \o join(Tail(path))

(***************************************************************************)
(* parse_tree_line                                                         *)
(***************************************************************************)
\* Lines 17-21: the index of the first character outside the list, 0 when
\* the loop never breaks.
RECURSIVE scan_from(_, _)
scan_from(raw, i) ==
    IF i > Len(raw) THEN 0
    ELSE IF raw[i] \notin ScanDecoration THEN i - 1
         ELSE scan_from(raw, i + 1)

content_start_index(raw) == scan_from(raw, 1)

\* Lines 27-30: group 1 of ^(?:[│─└├\s\xa0]*)(.*)$, what follows the longest
\* leading run of the class.  '.' matches every character of a line, so the
\* pattern matches every line.
RECURSIVE tree_prefix_group(_)
tree_prefix_group(raw) ==
    IF raw = <<>> \/ Head(raw) \notin TREE_PREFIX_CLASS THEN raw
    ELSE tree_prefix_group(Tail(raw))

parse_tree_line(line_num, raw) ==
    [line_num |-> line_num,
     raw_line |-> raw,
     indent_level |-> content_start_index(raw) \div 4,
     item_name |-> strip(sub_whitespace(strip(tree_prefix_group(raw))))]

(***************************************************************************)
(* is_file                                                                 *)
(***************************************************************************)
\* Whether \s*\([^)]*\)$ matches s from position i on.
size_matches_at(s, i) ==
    LET rest == SubSeq(s, i, Len(s))
        body == lstrip(rest)
    IN  /\ Len(body) >= 2
        /\ Head(body) = "("
        /\ body[Len(body)] = ")"
        /\ \A k \in 2..(Len(body) - 1) : body[k] # ")"

\* re.sub(r'\s*\([^)]*\)$', '', s): the leftmost match is removed.
RECURSIVE sub_size_from(_, _)
sub_size_from(s, i) ==
    IF i > Len(s) THEN s
    ELSE IF size_matches_at(s, i) THEN SubSeq(s, 1, i - 1)
         ELSE sub_size_from(s, i + 1)

sub_size(s) == sub_size_from(s, 1)

\* is_file comparing the extension as written, without lower().
is_file_case_sensitive(item_name) ==
    LET clean_name == sub_size(item_name)
    IN  IF "." \in Range(clean_name)
        THEN (<<".">> \o split_last(clean_name)) \in FILE_EXTENSIONS
        ELSE FALSE

is_file(item_name) ==
    LET clean_name == sub_size(item_name)
    IN  IF "." \in Range(clean_name)
        THEN (<<".">> \o lower(split_last(clean_name))) \in FILE_EXTENSIONS
        ELSE FALSE

(***************************************************************************)
(* update_path: the stack after the call; the call returns its join.       *)
(***************************************************************************)
\* update_path without the loop of lines 61-62 that pops the deeper levels.
update_path_no_pop(path, it, level) ==
    LET padded == path \o [i \in 1..(level - Len(path)) |-> <<>>]
    IN  IF Len(padded) = level
        THEN Append(padded, it.item_name)
        ELSE [padded EXCEPT ![level + 1] = it.item_name]

\* update_path without the loop of lines 65-66 that pads the skipped levels.
update_path_no_pad(path, it, level) ==
    LET popped == IF Len(path) > level THEN SubSeq(path, 1, level) ELSE path
    IN  Append(popped, it.item_name)

update_path(path, it, level) ==
    LET popped == IF Len(path) > level THEN SubSeq(path, 1, level) ELSE path
        padded == popped \o [i \in 1..(level - Len(popped)) |-> <<>>]
    IN  IF Len(padded) = level
        THEN Append(padded, it.item_name)
        ELSE [padded EXCEPT ![level + 1] = it.item_name]

(***************************************************************************)
(* The records the sink receives.                                          *)
(***************************************************************************)
\* write_section_header(output_file, title)
section_header(title) == [kind |-> "header", title |-> title]

\* write_item_output(output_file, item)
item_output(it) ==
    [kind |-> "item",
     line_num |-> it.line_num,
     indent_level |-> it.indent_level,
     item_name |-> it.item_name,
     full_path |-> it.full_path]

\* write_statistics(output_file, total_lines, files_count, extensions,
\* files_only): the file types are listed only when there are some and
\* files_only is set.
statistics(total_lines, count, exts, only) ==
    [kind |-> "stats",
     total_lines |-> total_lines,
     files_count |-> count,
     file_types |-> IF DOMAIN exts # {} /\ only THEN exts ELSE <<>>]

(***************************************************************************)
(* process_tree_file: the line loop (lines 167-213) and its handlers.      *)
(***************************************************************************)
\* The lines a tree listing is made of in this model.
Lines ==
    {<<" ">>,
     <<"VBAR", " ", " ", " ">>,
     <<"R">>,
     <<"TEE", "HBAR", "HBAR", " ", "S">>,
     <<"TEE", "HBAR", "HBAR", " ", "a", ".", "c">>,
     <<"VBAR", " ", " ", " ", "ELBOW", "HBAR", "HBAR", " ", "b", ".", "H">>}

\* The positions at which the line loop can be interrupted.
LoopPcs ==
    {"for", "check_blank", "parse", "update_path", "check_file", "track_ext",
     "file_output", "else_output"}

\* Lines 145-165: the state on entering the line loop.
Init ==
    /\ f = <<>>
    /\ files_only \in BOOLEAN
    /\ pc = "for"
    /\ raw_line = <<>>
    /\ item = None
    /\ current_path = <<>>
    /\ files_count = 0
    /\ total_lines_processed = 0
    /\ extensions = <<>>
    /\ output = <<section_header(IF files_only THEN "Files Only" ELSE "All Items")>>
    /\ interrupted = FALSE
    /\ arg = <<>>
    /\ ret = None

\* Lines 168-170: the next line is read and counted.
ReadLine ==
    /\ pc = "for"
    /\ Len(f) < MaxLines
    /\ \E line \in Lines :
         /\ f' = Append(f, line)
         /\ raw_line' = line
    /\ total_lines_processed' = total_lines_processed + 1
    /\ pc' = "check_blank"
    /\ UNCHANGED <<files_only, item, current_path, files_count, extensions,
                   output, interrupted, arg, ret>>

\* Line 168 at the end of the input, and the inner finally (215-217).
EndOfInput ==
    /\ pc = "for"
    /\ pc' = "finally"
    /\ UNCHANGED <<f, files_only, raw_line, item, current_path, files_count,
                   total_lines_processed, extensions, output, interrupted,
                   arg, ret>>

\* Lines 172-175: a line that strip() empties is skipped.
CheckBlank ==
    /\ pc = "check_blank"
    /\ pc' = IF strip(raw_line) = <<>> THEN "for" ELSE "parse"
    /\ UNCHANGED <<f, files_only, raw_line, item, current_path, files_count,
                   total_lines_processed, extensions, output, interrupted,
                   arg, ret>>

\* Lines 177-181: the line is parsed; a None item is skipped.
ParseLine ==
    /\ pc = "parse"
    /\ item' = parse_tree_line(total_lines_processed, raw_line)
    /\ pc' = IF item' = None THEN "for" ELSE "update_path"
    /\ UNCHANGED <<f, files_only, raw_line, current_path, files_count,
                   total_lines_processed, extensions, output, interrupted,
                   arg, ret>>

\* The full path taken from the stack as it was before update_path.
UpdatePath_stale_path ==
    /\ pc = "update_path"
    /\ current_path' = update_path(current_path, item, item.indent_level)
    /\ item' = [line_num |-> item.line_num,
                raw_line |-> item.raw_line,
                indent_level |-> item.indent_level,
                item_name |-> item.item_name,
                full_path |-> join(current_path)]
    /\ pc' = "check_file"
    /\ UNCHANGED <<f, files_only, raw_line, files_count,
                   total_lines_processed, extensions, output, interrupted,
                   arg, ret>>

\* Lines 184-185: the path stack advances and the item gets its full path.
UpdatePath ==
    /\ pc = "update_path"
    /\ current_path' = update_path(current_path, item, item.indent_level)
    /\ item' = [line_num |-> item.line_num,
                raw_line |-> item.raw_line,
                indent_level |-> item.indent_level,
                item_name |-> item.item_name,
                full_path |-> join(current_path')]
    /\ pc' = "check_file"
    /\ UNCHANGED <<f, files_only, raw_line, files_count,
                   total_lines_processed, extensions, output, interrupted,
                   arg, ret>>

\* Lines 188-189: a file is counted.
CheckFile ==
    /\ pc = "check_file"
    /\ IF is_file(item.item_name)
       THEN /\ files_count' = files_count + 1
            /\ pc' = "track_ext"
       ELSE /\ files_count' = files_count
            /\ pc' = "else_output"
    /\ UNCHANGED <<f, files_only, raw_line, item, current_path,
                   total_lines_processed, extensions, output, interrupted,
                   arg, ret>>

\* extensions[ext] = 1 in place of extensions[ext] += 1.
tally_add_overwrite(exts, ext) ==
    IF ext \in DOMAIN exts
    THEN [exts EXCEPT ![ext] = 1]
    ELSE (ext :> 1) @@ exts

\* extensions[ext] += 1 on a defaultdict(int)
tally_add(exts, ext) ==
    IF ext \in DOMAIN exts
    THEN [exts EXCEPT ![ext] = @ + 1]
    ELSE (ext :> 1) @@ exts

\* Lines 192-195: the file's extension is tallied.
TrackExt ==
    /\ pc = "track_ext"
    /\ LET clean_name == sub_size(item.item_name)
       IN  extensions' = IF "." \in Range(clean_name)
                         THEN tally_add(extensions, lower(split_last(clean_name)))
                         ELSE extensions
    /\ pc' = "file_output"
    /\ UNCHANGED <<f, files_only, raw_line, item, current_path, files_count,
                   total_lines_processed, output, interrupted, arg, ret>>

\* Lines 198-199: in the is_file branch, the item is written when files_only
\* is set.
FileOutput ==
    /\ pc = "file_output"
    /\ output' = IF files_only THEN Append(output, item_output(item)) ELSE output
    /\ pc' = "for"
    /\ UNCHANGED <<f, files_only, raw_line, item, current_path, files_count,
                   total_lines_processed, extensions, interrupted, arg, ret>>

\* Lines 200-202: the elif of "if is_file": the item is written when
\* files_only is not set.
ElseOutput ==
    /\ pc = "else_output"
    /\ output' = IF ~files_only THEN Append(output, item_output(item)) ELSE output
    /\ pc' = "for"
    /\ UNCHANGED <<f, files_only, raw_line, item, current_path, files_count,
                   total_lines_processed, extensions, interrupted, arg, ret>>

\* A KeyboardInterrupt is raised between two statements of the line loop and
\* control passes to the handler of line 219.
KeyboardInterrupt ==
    /\ pc \in LoopPcs
    /\ ~interrupted
    /\ interrupted' = TRUE
    /\ pc' = "except"
    /\ UNCHANGED <<f, files_only, raw_line, item, current_path, files_count,
                   total_lines_processed, extensions, output, arg, ret>>

\* The statistics written at the end of the try body instead of in the
\* finally clause: the handler would end the run without them.
ExceptHandler_no_finally ==
    /\ pc = "except"
    /\ pc' = "done"
    /\ UNCHANGED <<f, files_only, raw_line, item, current_path, files_count,
                   total_lines_processed, extensions, output, interrupted,
                   arg, ret>>

\* Lines 219-221: the handler reports on stderr.
ExceptHandler ==
    /\ pc = "except"
    /\ pc' = "finally"
    /\ UNCHANGED <<f, files_only, raw_line, item, current_path, files_count,
                   total_lines_processed, extensions, output, interrupted,
                   arg, ret>>

\* Lines 223-234: the final statistics are written.
Finally ==
    /\ pc = "finally"
    /\ output' = Append(output, statistics(total_lines_processed, files_count,
                                           extensions, files_only))
    /\ pc' = "done"
    /\ UNCHANGED <<f, files_only, raw_line, item, current_path, files_count,
                   total_lines_processed, extensions, interrupted, arg, ret>>

\* The steps the program takes by itself.
Step ==
    \/ ReadLine
    \/ EndOfInput
    \/ CheckBlank
    \/ ParseLine
    \/ UpdatePath
    \/ CheckFile
    \/ TrackExt
    \/ FileOutput
    \/ ElseOutput
    \/ ExceptHandler
    \/ Finally

Next == Step \/ KeyboardInterrupt

Spec == Init /\ [][Next]_vars

\* The program is sequential and every statement of the loop returns: a step
\* it can take is eventually taken.  Nothing obliges an interrupt to arrive.
FairSpec == Spec /\ WF_vars(Step)

(***************************************************************************)
(* parse_tree_line called on its own, on every line over ParseAlphabet.    *)
(***************************************************************************)
ParseAlphabet == {" ", "VBAR", "TDOWN", "TAB", "a"}

Idle ==
    /\ f = <<>>
    /\ files_only = FALSE
    /\ raw_line = <<>>
    /\ item = None
    /\ current_path = <<>>
    /\ files_count = 0
    /\ total_lines_processed = 0
    /\ extensions = <<>>
    /\ output = <<>>
    /\ interrupted = FALSE

InitParse ==
    /\ Idle
    /\ pc = "call_parse_tree_line"
    /\ arg \in SeqsUpTo(ParseAlphabet, MaxLineLen)
    /\ ret = None

CallParse ==
    /\ pc = "call_parse_tree_line"
    /\ ret' = parse_tree_line(1, arg)
    /\ pc' = "returned"
    /\ UNCHANGED <<f, files_only, raw_line, item, current_path, files_count,
                   total_lines_processed, extensions, output, interrupted, arg>>

SpecParse == InitParse /\ [][CallParse]_vars

(***************************************************************************)
(* is_file called on its own, on every name over NameAlphabet.             *)
(***************************************************************************)
NameAlphabet == {"a", "c", "C", ".", "(", ")", " "}

InitIsFile ==
    /\ Idle
    /\ pc = "call_is_file"
    /\ arg \in SeqsUpTo(NameAlphabet, MaxNameLen)
    /\ ret = None

CallIsFile ==
    /\ pc = "call_is_file"
    /\ ret' = is_file(arg)
    /\ pc' = "returned"
    /\ UNCHANGED <<f, files_only, raw_line, item, current_path, files_count,
                   total_lines_processed, extensions, output, interrupted, arg>>

SpecIsFile == InitIsFile /\ [][CallIsFile]_vars

(***************************************************************************)
(* update_path called on a stream of items of any levels, from an empty    *)
(* stack.                                                                  *)
(***************************************************************************)
ItemNames == {<<>>, <<"R">>, <<"S">>}

InitPath ==
    /\ Idle
    /\ pc = "call_update_path"
    /\ arg = <<>>
    /\ ret = None

CallUpdatePath ==
    /\ pc = "call_update_path"
    /\ \E level \in 0..MaxLevel, name \in ItemNames :
         LET it == [line_num |-> 1, raw_line |-> <<>>,
                    indent_level |-> level, item_name |-> name]
         IN  /\ current_path' = update_path(current_path, it, level)
             /\ item' = it
             /\ ret' = join(current_path')
    /\ UNCHANGED <<f, files_only, pc, raw_line, files_count,
                   total_lines_processed, extensions, output, interrupted, arg>>

SpecPath == InitPath /\ [][CallUpdatePath]_vars

(***************************************************************************)
(* Properties.                                                             *)
(***************************************************************************)
Min(S) == CHOOSE x \in S : \A y \in S : x <= y

Max(S) == CHOOSE x \in S : \A y \in S : x >= y

\* C2: after update_path has processed an item of level L, whatever the
\* levels of the items before it, the stack has exactly L + 1 entries and the
\* last one is the item's name.
C2_StackLength ==
    item # None =>
        /\ Len(current_path) = item.indent_level + 1
        /\ current_path[Len(current_path)] = item.item_name

\* An item of level 3 processed right after the stack held a single entry.
C2_Witness ==
    /\ pc = "call_update_path"
    /\ item # None
    /\ item.indent_level = 3
    /\ Len(current_path) = 4
    /\ current_path[2] = <<>>
    /\ current_path[3] = <<>>
    /\ current_path[1] = <<"R">>

\* The characters of a line that are not decoration of the scan's list.
ContentPositions(raw) == {i \in 1..Len(raw) : raw[i] \notin ScanDecoration}

\* C7: for a line with content, the prefix parse_tree_line removes is the
\* leading run of decoration the content-start scan stepped over: the name is
\* the whitespace-normalised text from the content-start index on, the level
\* is that index div 4, and the name does not begin with a decoration
\* character.
C7_PrefixAgreesWithScan ==
    (pc = "returned" /\ ContentPositions(arg) # {}) =>
        LET start == Min(ContentPositions(arg)) - 1
        IN  /\ ret.indent_level = start \div 4
            /\ ret.item_name =
                   strip(sub_whitespace(SubSeq(arg, start + 1, Len(arg))))
            /\ ret.item_name # <<>> => ret.item_name[1] \notin ScanDecoration

\* The positions of a '(' that opens a parenthesised group closed by the last
\* character of the name.
GroupStarts(name) ==
    {i \in 1..(Len(name) - 1) :
        /\ name[i] = "("
        /\ name[Len(name)] = ")"
        /\ \A k \in (i + 1)..(Len(name) - 1) : name[k] # ")"}

\* The name without its trailing parenthesised group and the whitespace
\* before it.
WithoutGroup(name) ==
    IF GroupStarts(name) = {} THEN name
    ELSE rstrip(SubSeq(name, 1, Min(GroupStarts(name)) - 1))

DotPositions(s) == {i \in 1..Len(s) : s[i] = "."}

\* C8: is_file(name) is true exactly when the name without its trailing
\* parenthesised group has a dot and the lowercased text after its last dot is
\* a recognised extension.
C8_FileRule ==
    pc = "returned" =>
        LET s == WithoutGroup(arg)
        IN  ret = (/\ DotPositions(s) # {}
                   /\ (<<".">> \o lower(SubSeq(s, Max(DotPositions(s)) + 1, Len(s))))
                          \in FILE_EXTENSIONS)

\* A name with an upper-case extension and a size group, classified a file.
C8_Witness ==
    /\ pc = "returned"
    /\ arg = <<"a", ".", "C", "(", ")">>
    /\ ret = TRUE

\* The step is a call of update_path on an item of level L that finds, after
\* the pop, k < L entries on the stack.
SkippedLevel(L, k) ==
    /\ pc = "call_update_path"
    /\ item' # None
    /\ L = item'.indent_level
    /\ k = Len(current_path)
    /\ k < L

\* C10: an item of level L arriving on a stack of k < L entries is padded
\* with exactly L - k empty names: the k ancestors are kept, the entries
\* k+1..L are empty, entry L+1 is the item's name, and the path returned is
\* the ancestors' join, the empty segments and the name.
C10_SkippedLevels ==
    [][\A L \in 0..(MaxLevel + 1), k \in 0..(MaxLevel + 1) :
         SkippedLevel(L, k) =>
            /\ Len(current_path') = L + 1
            /\ \A i \in 1..k : current_path'[i] = current_path[i]
            /\ \A i \in (k + 1)..L : current_path'[i] = <<>>
            /\ current_path'[L + 1] = item'.item_name
            /\ ret' = join(current_path)
                        \o [i \in 1..(L - k + (IF k > 0 THEN 1 ELSE 0)) |-> "/"]
                        \o item'.item_name]_vars

\* Root//S: level 2 right after a level-0 item.
C10_Witness ==
    /\ pc = "call_update_path"
    /\ current_path = <<<<"R">>, <<>>, <<"S">>>>
    /\ ret = <<"R", "/", "/", "S">>

(***************************************************************************)
(* Properties of a run of process_tree_file.                               *)
(***************************************************************************)
\* The positions of the loop body that only a parsed item reaches.
ItemPcs == {"update_path", "check_file", "track_ext", "file_output", "else_output"}

\* A line made of decoration characters only (the empty line included).
DecorationOnly(raw) == \A i \in 1..Len(raw) : raw[i] \in ScanDecoration

\* C1: a line made only of decoration characters, or empty, yields no item:
\* the loop never takes it to the path stack, the counters or the sink.
C1_DecorationOnlyAbsent == DecorationOnly(raw_line) => pc \notin ItemPcs

\* A line the loop does not skip: strip() leaves something and the parser
\* returns an item.
IsItemLine(line) == strip(line) # <<>> /\ parse_tree_line(0, line) # None

NameOf(line) == parse_tree_line(0, line).item_name

LevelOf(line) == parse_tree_line(0, line).indent_level

\* The number of item records the sink holds for line n.
RecordsOf(n) ==
    Cardinality({k \in 1..Len(output) :
                    output[k].kind = "item" /\ output[k].line_num = n})

\* C3: between lines, with files-only off every item read so far has exactly
\* one record in the sink; with files-only on exactly the file items have one
\* and the directory items none.
C3_OutputSelection ==
    pc = "for" =>
        \A n \in 1..Len(f) :
            RecordsOf(n) =
                IF IsItemLine(f[n]) /\ (files_only => is_file(NameOf(f[n])))
                THEN 1 ELSE 0

\* The items of the lines read, in order.
ItemLines(lines) == SelectSeq(lines, IsItemLine)

\* First item at level 0, every later item at most one level deeper than the
\* item before it.
WellFormed(items) ==
    items # <<>> =>
        /\ LevelOf(items[1]) = 0
        /\ \A j \in 2..Len(items) : LevelOf(items[j]) <= LevelOf(items[j - 1]) + 1

\* The name of the most recent item at level i before the last item.
AncestorName(items, i) ==
    NameOf(items[Max({j \in 1..(Len(items) - 1) : LevelOf(items[j]) = i})])

\* No empty segment in a slash-joined path of names that hold no slash.
NoEmptySegment(path) ==
    /\ path # <<>>
    /\ path[1] # "/"
    /\ path[Len(path)] # "/"
    /\ \A i \in 1..(Len(path) - 1) : ~(path[i] = "/" /\ path[i + 1] = "/")

\* C4: on well-formed input the full path of the item just processed, at
\* level L, is the slash-join of the names of the most recent preceding items
\* at levels 0..L-1 followed by its own name; when no name is empty the path
\* has no empty segment.
C4_PathReconstruction ==
    (pc \in ItemPcs \ {"update_path"} /\ WellFormed(ItemLines(f))) =>
        LET items == ItemLines(f)
            L == LevelOf(items[Len(items)])
            segments == [i \in 1..(L + 1) |->
                            IF i = L + 1 THEN NameOf(items[Len(items)])
                            ELSE AncestorName(items, i - 1)]
        IN  /\ item.full_path = join(segments)
            /\ current_path = segments
            /\ (\A j \in 1..Len(items) : NameOf(items[j]) # <<>>)
                   => NoEmptySegment(item.full_path)

\* R, S, b.H: the item at level 2 has got the path R/S/b.H.
C4_Witness ==
    /\ pc = "check_file"
    /\ Len(f) = 3
    /\ WellFormed(ItemLines(f))
    /\ item.indent_level = 2
    /\ item.full_path = <<"R", "/", "S", "/", "b", ".", "H">>

\* The number of statistics records in the sink.
StatsCount == Cardinality({k \in 1..Len(output) : output[k].kind = "stats"})

\* C5: every run, interrupted in the line loop or not, ends with the final
\* statistics (totalLinesProcessed, filesFound) written exactly once, as the
\* last record, and no line is read or counted after an interrupt.
C5_StatisticsOnce ==
    /\ <>(pc = "done")
    /\ [](StatsCount <= 1)
    /\ [](pc = "done" =>
            /\ StatsCount = 1
            /\ output[Len(output)] =
                   statistics(total_lines_processed, files_count, extensions,
                              files_only))
    /\ [][interrupted =>
            /\ f' = f
            /\ total_lines_processed' = total_lines_processed]_vars

\* An interrupted run that has reported its statistics.
C5_Witness ==
    /\ pc = "done"
    /\ interrupted
    /\ Len(f) = 2
    /\ StatsCount = 1

\* The stack the loop leaves after these items.
RECURSIVE StackAfter(_)
StackAfter(items) ==
    IF items = <<>> THEN <<>>
    ELSE LET last == parse_tree_line(0, items[Len(items)])
         IN  update_path(StackAfter(SubSeq(items, 1, Len(items) - 1)),
                         last, last.indent_level)

\* The lines among these that hold a file.
FileLines(lines) == {n \in 1..Len(lines) : IsItemLine(lines[n]) /\ is_file(NameOf(lines[n]))}

RECURSIVE TallySum(_)
TallySum(exts) ==
    IF DOMAIN exts = {} THEN 0
    ELSE LET e == CHOOSE x \in DOMAIN exts : TRUE
         IN  exts[e] + TallySum([x \in DOMAIN exts \ {e} |-> exts[x]])

\* C6: when the final statistics are reported, every line counted in
\* totalLinesProcessed has had all its effects applied: the stack is the one
\* the counted items leave, every counted file is in filesFound and in the
\* tally, and every record the loop writes for a counted line is in the sink.
C6_LineAtomic ==
    pc = "done" =>
        /\ total_lines_processed = Len(f)
        /\ current_path = StackAfter(ItemLines(f))
        /\ files_count = Cardinality(FileLines(f))
        /\ TallySum(extensions) = files_count
        /\ \A n \in 1..Len(f) :
              RecordsOf(n) =
                  IF IsItemLine(f[n]) /\ (files_only <=> is_file(NameOf(f[n])))
                  THEN 1 ELSE 0

\* The lowercase text after the last dot of a name without its size group.
FinalExtension(name) ==
    LET s == WithoutGroup(name)
    IN  lower(SubSeq(s, Max(DotPositions(s)) + 1, Len(s)))

\* The lines among these that hold a file whose name, without its size group,
\* has a dot.
DottedFileLines(lines) ==
    {n \in FileLines(lines) : DotPositions(WithoutGroup(NameOf(lines[n]))) # {}}

\* C9: between lines, filesFound is the number of file items read, the counts
\* of the tally sum to the number of those whose stripped name has a dot, and
\* the count of each extension is the number of file items with that
\* lowercase final extension.
C9_TallyConsistent ==
    pc = "for" =>
        /\ files_count = Cardinality(FileLines(f))
        /\ TallySum(extensions) = Cardinality(DottedFileLines(f))
        /\ DOMAIN extensions =
               {FinalExtension(NameOf(f[n])) : n \in DottedFileLines(f)}
        /\ \A e \in DOMAIN extensions :
              extensions[e] =
                  Cardinality({n \in DottedFileLines(f) :
                                  FinalExtension(NameOf(f[n])) = e})

\* Three files of two extensions read.
C9_Witness ==
    /\ pc = "for"
    /\ Len(f) = 3
    /\ files_count = 3
    /\ DOMAIN extensions = {<<"c">>, <<"h">>}
    /\ extensions[<<"c">>] = 2

====
